---- MODULE Spec2Model ----
(***************************************************************************)
(* Variant graph generators: variant_graph_generator.py (v1),              *)
(* variant_graph_generator_v2.py (two scripts in one file, run one after   *)
(* the other) and variant_graph_generator_v4.py (v4).                      *)
(*                                                                         *)
(* Every script loads one CSV table per variant into the module-level      *)
(* containers early_data / late_data, replacing -1 by 0, then draws a bar  *)
(* chart and saves it.  Percentages are integers here; a segment height    *)
(* raw / count is kept as the exact fraction [num, den].                   *)
(***************************************************************************)
EXTENDS Integers, Sequences, FiniteSets, TLC

\* number of entries of CSV_FILES (6 in the scripts), scaled down
NumFiles == 2
\* number of calls of load_variant_data on the same containers
MaxLoads == 2
\* largest small percentage drawn for a single column
MaxVal == 3
\* number of times clean_data is applied to one column
MaxPasses == 2

\* the value DataFrame.replace looks for
Sentinel == -1

SEQUENCERS == <<"China MGISEQ-2000", "DE MiniSeq", "UK HiSeq 2500">>
SeqNames == {SEQUENCERS[k] : k \in 1..Len(SEQUENCERS)}
COLUMNS == {"early", "late"}
\* the file early_late_var<N>.csv is named by its variant number N
CSV_FILES == [i \in 1..NumFiles |-> 15 + i]
\* variant_labels: one label per variant number
variant_labels == [i \in 1..NumFiles |-> 15 + i]

VARIABLES
  files,       \* the CSV files on disk, by position in CSV_FILES
  script,      \* which script file is being executed
  part,        \* which of the scripts of the file is running (v2 has two)
  pc,          \* position of the running script
  early_data,  \* sequencer -> list of percentages
  late_data,   \* sequencer -> list of percentages
  fig,         \* the bar() calls made on each axis, by variant
  output,      \* images written by savefig
  error,       \* the exception that ended the run
  raw,         \* a column as read from a CSV file
  col,         \* that column after clean_data
  passes,      \* how often clean_data was applied to col
  policy,      \* how the column is stacked
  stacked,     \* whether the column's bar has been drawn
  bar,         \* the bar() calls of the column's bar
  loads        \* calls of load_variant_data since the containers were bound

vars == <<files, script, part, pc, early_data, late_data, fig, output, error,
          raw, col, passes, policy, stacked, bar, loads>>
pipeVars == <<files, script, part, pc, early_data, late_data, fig, output, error>>
colVars == <<raw, col, passes, policy, stacked, bar>>

(***************************************************************************)
(* Numbers: Python's raw / count and bottom += segment, as fractions.      *)
(***************************************************************************)
Rat(n, d) == [num |-> n, den |-> d]
Zero == Rat(0, 1)
\* the local `bottom` of create_split_graph before its first assignment
Unbound == Rat(0, 0)
RatAdd(a, b) ==
  IF a.den = b.den THEN Rat(a.num + b.num, a.den)
  ELSE Rat(a.num * b.den + b.num * a.den, a.den * b.den)
RatEq(a, b) == a.num * b.den = b.num * a.den

(***************************************************************************)
(* Cleaning                                                                *)
(***************************************************************************)
\* a cleaner that zeroes every negative cell
clean_allneg(v) == IF v < 0 THEN 0 ELSE v
\* a cleaner that moves negative cells one step towards zero
clean_shift(v) == IF v < 0 THEN v + 1 ELSE v

\* DataFrame.replace(-1, 0) on one cell
clean(v) == IF v = Sentinel THEN 0 ELSE v

\* clean_data(df): replace applied to every cell of the table
clean_data(df) == [k \in DOMAIN df |-> clean(df[k])]

(***************************************************************************)
(* CSV files                                                               *)
(***************************************************************************)
Idx(s) == CHOOSE k \in 1..Len(SEQUENCERS) : SEQUENCERS[k] = s

\* the table read by pd.read_csv(path, index_col=0): (row, column) -> cell
MkDF(e, l) ==
  [k \in SeqNames \X COLUMNS |->
     IF k[2] = "early" THEN e[Idx(k[1])] ELSE l[Idx(k[1])]]
Restrict(df, D) == [k \in D |-> df[k]]

ColChoices == { <<40, -1, 60>>, <<0, -1, 0>>, <<-2, 3, 1>> }
FullTables == { MkDF(e, l) : e \in ColChoices, l \in ColChoices }
BaseTable == MkDF(<<40, -1, 60>>, <<-2, 3, 1>>)
NoRowTable == Restrict(BaseTable, (SeqNames \ {SEQUENCERS[2]}) \X COLUMNS)
NoLateTable == Restrict(BaseTable, SeqNames \X {"early"})
NoEarlyTable == Restrict(BaseTable, SeqNames \X {"late"})
MissingFile == [exists |-> FALSE, df |-> Restrict(BaseTable, {})]
FileChoices ==
  { [exists |-> TRUE, df |-> t] :
      t \in FullTables \cup {NoRowTable, NoLateTable, NoEarlyTable} }
  \cup {MissingFile}

EmptyData == [s \in SeqNames |-> <<>>]
NoFig == [early |-> <<>>, late |-> <<>>]

(***************************************************************************)
(* load_variant_data                                                       *)
(***************************************************************************)
LoadResult(ed, ld, err) == [early |-> ed, late |-> ld, error |-> err]

RECURSIVE LoadRows(_, _, _, _)
RECURSIVE LoadRows_swapped(_, _, _, _)
\* a row loop that stores the two columns in each other's container
LoadRows_swapped(df, k, ed, ld) ==
  IF k > Len(SEQUENCERS) THEN LoadResult(ed, ld, "none")
  ELSE LET seq == SEQUENCERS[k] IN
    IF <<seq, "late">> \notin DOMAIN df THEN LoadResult(ed, ld, "KeyError")
    ELSE LET ed2 == [ed EXCEPT ![seq] = Append(@, df[<<seq, "late">>])] IN
      IF <<seq, "early">> \notin DOMAIN df THEN LoadResult(ed2, ld, "KeyError")
      ELSE LoadRows_swapped(df, k + 1, ed2,
                            [ld EXCEPT ![seq] = Append(@, df[<<seq, "early">>])])

RECURSIVE LoadRows_reset(_, _, _, _)
\* a row loop that rebinds each list to the value read instead of appending
LoadRows_reset(df, k, ed, ld) ==
  IF k > Len(SEQUENCERS) THEN LoadResult(ed, ld, "none")
  ELSE LET seq == SEQUENCERS[k] IN
    IF <<seq, "early">> \notin DOMAIN df THEN LoadResult(ed, ld, "KeyError")
    ELSE LET ed2 == [ed EXCEPT ![seq] = <<df[<<seq, "early">>]>>] IN
      IF <<seq, "late">> \notin DOMAIN df THEN LoadResult(ed2, ld, "KeyError")
      ELSE LoadRows_reset(df, k + 1, ed2,
                          [ld EXCEPT ![seq] = <<df[<<seq, "late">>]>>])

\* for sequencer in SEQUENCERS: append df.loc[sequencer, "early"], then
\* df.loc[sequencer, "late"]; a missing row or column raises KeyError
LoadRows(df, k, ed, ld) ==
  IF k > Len(SEQUENCERS) THEN LoadResult(ed, ld, "none")
  ELSE LET seq == SEQUENCERS[k] IN
    IF <<seq, "early">> \notin DOMAIN df THEN LoadResult(ed, ld, "KeyError")
    ELSE LET ed2 == [ed EXCEPT ![seq] = Append(@, df[<<seq, "early">>])] IN
      IF <<seq, "late">> \notin DOMAIN df THEN LoadResult(ed2, ld, "KeyError")
      ELSE LoadRows(df, k + 1, ed2,
                    [ld EXCEPT ![seq] = Append(@, df[<<seq, "late">>])])

\* pd.read_csv followed by clean_data (v1, v2) or .replace(-1, 0) (v4)
ReadClean_raw(f) == f.df
ReadClean(f) == clean_data(f.df)

RECURSIVE LoadFiles(_, _, _, _)
RECURSIVE LoadFiles_skip(_, _, _, _)
\* a file loop that passes over files it cannot read
LoadFiles_skip(fs, i, ed, ld) ==
  IF i > NumFiles THEN LoadResult(ed, ld, "none")
  ELSE IF ~fs[i].exists THEN LoadFiles_skip(fs, i + 1, ed, ld)
  ELSE LET r == LoadRows(ReadClean(fs[i]), 1, ed, ld) IN
    LoadFiles_skip(fs, i + 1, r.early, r.late)

\* for file in CSV_FILES: read, clean, store; the first exception ends the loop
LoadFiles(fs, i, ed, ld) ==
  IF i > NumFiles THEN LoadResult(ed, ld, "none")
  ELSE IF ~fs[i].exists THEN LoadResult(ed, ld, "FileNotFoundError")
  ELSE LET r == LoadRows(ReadClean(fs[i]), 1, ed, ld) IN
    IF r.error # "none" THEN r ELSE LoadFiles(fs, i + 1, r.early, r.late)

(***************************************************************************)
(* Stacked bars: the body of the loop over variants                        *)
(***************************************************************************)
Call(seq, x, h, b) == [seq |-> seq, x |-> x, height |-> h, bottom |-> b]
BarOf(calls, bottom) == [calls |-> calls, bottom |-> bottom]
Positive(vals) == {s \in SeqNames : vals[s] > 0}

RECURSIVE RawSegments(_, _, _, _, _)
RECURSIVE RawSegments_nosum(_, _, _, _, _)
\* a loop that sets bottom to the last segment instead of adding it
RawSegments_nosum(vals, x, k, bottom, calls) ==
  IF k > Len(SEQUENCERS) THEN BarOf(calls, bottom)
  ELSE LET seq == SEQUENCERS[k]
           segment_height == Rat(vals[seq], 1) IN
    IF vals[seq] <= 0 THEN RawSegments_nosum(vals, x, k + 1, bottom, calls)
    ELSE RawSegments_nosum(vals, x, k + 1, segment_height,
                           Append(calls, Call(seq, x, segment_height, bottom)))

\* v2, second script: segment_height is the value itself
RawSegments(vals, x, k, bottom, calls) ==
  IF k > Len(SEQUENCERS) THEN BarOf(calls, bottom)
  ELSE LET seq == SEQUENCERS[k]
           segment_height == Rat(vals[seq], 1) IN
    IF vals[seq] <= 0 THEN RawSegments(vals, x, k + 1, bottom, calls)
    ELSE RawSegments(vals, x, k + 1, RatAdd(bottom, segment_height),
                     Append(calls, Call(seq, x, segment_height, bottom)))

\* v2, second script: bottom = 0; no valid sequencer -> continue
BarRaw(vals, x, b0) ==
  LET valid_seqs == Positive(vals) IN
  IF valid_seqs = {} THEN BarOf(<<>>, Zero)
  ELSE RawSegments(vals, x, 1, Zero, <<>>)

RECURSIVE AvgSegments(_, _, _, _, _, _)
RECURSIVE AvgSegments_reversed(_, _, _, _, _, _)
\* a loop that walks SEQUENCERS from its last entry to its first
AvgSegments_reversed(vals, count, x, k, bottom, calls) ==
  IF k > Len(SEQUENCERS) THEN BarOf(calls, bottom)
  ELSE LET seq == SEQUENCERS[Len(SEQUENCERS) + 1 - k]
           rawv == vals[seq]
           segment == Rat(rawv, count) IN
    IF rawv <= 0 THEN AvgSegments_reversed(vals, count, x, k + 1, bottom, calls)
    ELSE AvgSegments_reversed(vals, count, x, k + 1, RatAdd(bottom, segment),
                              Append(calls, Call(seq, x, segment, bottom)))

\* v4: segment = raw / count
AvgSegments(vals, count, x, k, bottom, calls) ==
  IF k > Len(SEQUENCERS) THEN BarOf(calls, bottom)
  ELSE LET seq == SEQUENCERS[k]
           rawv == vals[seq]
           segment == Rat(rawv, count) IN
    IF rawv <= 0 THEN AvgSegments(vals, count, x, k + 1, bottom, calls)
    ELSE AvgSegments(vals, count, x, k + 1, RatAdd(bottom, segment),
                     Append(calls, Call(seq, x, segment, bottom)))

\* a bar that divides by the number of sequencers
BarAvg_byall(vals, x, b0) ==
  LET count == Cardinality(Positive(vals)) IN
  IF count = 0 THEN BarOf(<<>>, b0)
  ELSE AvgSegments(vals, Len(SEQUENCERS), x, 1, Zero, <<>>)

\* a bar that counts, and draws, every sequencer whose value is not negative
BarAvg_drawzero(vals, x, b0) ==
  LET count == Cardinality({s \in SeqNames : vals[s] >= 0}) IN
  IF count = 0 THEN BarOf(<<>>, b0)
  ELSE BarOf([k \in 1..Len(SEQUENCERS) |->
                Call(SEQUENCERS[k], x, Rat(vals[SEQUENCERS[k]], count), Zero)],
             Zero)

\* a bar that stacks the values themselves
BarAvg_nodivide(vals, x, b0) ==
  LET count == Cardinality(Positive(vals)) IN
  IF count = 0 THEN BarOf(<<>>, b0)
  ELSE AvgSegments(vals, 1, x, 1, Zero, <<>>)

\* v4: count the values > 0; none -> continue (bottom keeps its old value)
BarAvg(vals, x, b0) ==
  LET count == Cardinality(Positive(vals)) IN
  IF count = 0 THEN BarOf(<<>>, b0)
  ELSE AvgSegments(vals, count, x, 1, Zero, <<>>)

\* the stacking rule of the running script
Bar(pol, vals, x, b0) ==
  IF pol = "raw" THEN BarRaw(vals, x, b0) ELSE BarAvg(vals, x, b0)

(***************************************************************************)
(* Charts                                                                  *)
(***************************************************************************)
NumVariants == Len(variant_labels)
Column(dataset, i) == [s \in SeqNames |-> dataset[s][i]]

\* the chart drawn by each script
Policy(sc, p) ==
  IF sc = "v4" THEN "average"
  ELSE IF sc = "v1" THEN "overlay"
  ELSE IF p = 1 THEN "grouped" ELSE "raw"

RECURSIVE StackedAxis(_, _, _, _, _)
\* for var_idx in range(len(variant_labels)): one stacked bar per variant
StackedAxis(pol, dataset, i, b0, bars) ==
  IF i > NumVariants THEN bars
  ELSE LET b == Bar(pol, Column(dataset, i), i, b0) IN
    StackedAxis(pol, dataset, i + 1, b.bottom, Append(bars, b))

LastBottom(bars, b0) == IF bars = <<>> THEN b0 ELSE bars[Len(bars)].bottom

\* bar(pos, dataset[sequencer], bottom=below[sequencer]) for each sequencer:
\* one rectangle per variant and sequencer, whatever its height
GroupedAxis(dataset, below) ==
  [i \in 1..NumVariants |->
     BarOf([k \in 1..Len(SEQUENCERS) |->
              Call(SEQUENCERS[k], i, Rat(dataset[SEQUENCERS[k]][i], 1),
                   IF below = EmptyData THEN Zero
                   ELSE Rat(below[SEQUENCERS[k]][i], 1))],
           Zero)]

\* create_split_graph / create_stacked_bar_chart
CreateGraph(pol, ed, ld) ==
  IF pol \in {"raw", "average"}
  THEN IF \E s \in SeqNames : Len(ed[s]) < NumVariants \/ Len(ld[s]) < NumVariants
       THEN [fig |-> NoFig, error |-> "IndexError"]
       ELSE LET e == StackedAxis(pol, ed, 1, Unbound, <<>>)
                l == StackedAxis(pol, ld, 1, LastBottom(e, Unbound), <<>>)
            IN [fig |-> [early |-> e, late |-> l], error |-> "none"]
  ELSE IF \E s \in SeqNames : Len(ed[s]) # NumVariants \/ Len(ld[s]) # NumVariants
       THEN [fig |-> NoFig, error |-> "ValueError"]
       ELSE [fig |-> [early |-> GroupedAxis(ed, EmptyData),
                      late |-> GroupedAxis(ld, IF pol = "overlay" THEN ed ELSE EmptyData)],
             error |-> "none"]

OutputName(sc) ==
  IF sc = "v4" THEN "variant_distribution_averaged.png" ELSE "variant_distribution.png"

(***************************************************************************)
(* One run of a script file                                                *)
(***************************************************************************)
IdleColumn ==
  /\ raw = [s \in SeqNames |-> 0]
  /\ col = [s \in SeqNames |-> 0]
  /\ passes = 0
  /\ policy = "raw"
  /\ stacked = FALSE
  /\ bar = BarOf(<<>>, Unbound)

Init ==
  /\ files \in [1..NumFiles -> FileChoices]
  /\ script \in {"v1", "v2", "v4"}
  /\ part = 1
  /\ pc = "idle"
  /\ early_data = EmptyData
  /\ late_data = EmptyData
  /\ fig = NoFig
  /\ output = <<>>
  /\ error = "none"
  /\ loads = 0
  /\ IdleColumn

\* load_variant_data(): an exception leaves what was appended and ends the run
Load ==
  /\ pc = "idle"
  /\ LET r == LoadFiles(files, 1, early_data, late_data) IN
       /\ early_data' = r.early
       /\ late_data' = r.late
       /\ error' = r.error
       /\ pc' = IF r.error = "none" THEN "loaded" ELSE "aborted"
  /\ loads' = loads + 1
  /\ UNCHANGED <<files, script, part, fig, output>>
  /\ UNCHANGED colVars

\* fig = create_split_graph()
Render ==
  /\ pc = "loaded"
  /\ LET r == CreateGraph(Policy(script, part), early_data, late_data) IN
       /\ fig' = r.fig
       /\ error' = r.error
       /\ pc' = IF r.error = "none" THEN "rendered" ELSE "aborted"
  /\ UNCHANGED <<files, script, part, early_data, late_data, output, loads>>
  /\ UNCHANGED colVars

\* fig.savefig(...)
SaveFig ==
  /\ pc = "rendered"
  /\ output' = Append(output, [name |-> OutputName(script), fig |-> fig])
  /\ pc' = "saved"
  /\ UNCHANGED <<files, script, part, early_data, late_data, fig, error, loads>>
  /\ UNCHANGED colVars

\* plt.show()
Show ==
  /\ pc = "saved"
  /\ pc' = "shown"
  /\ UNCHANGED <<files, script, part, early_data, late_data, fig, output, error, loads>>
  /\ UNCHANGED colVars

\* a file that starts over after plt.show() whichever script it is
SecondScript_any ==
  /\ pc = "shown"
  /\ part = 1
  /\ part' = 2
  /\ early_data' = EmptyData
  /\ late_data' = EmptyData
  /\ pc' = "idle"
  /\ loads' = 0
  /\ UNCHANGED <<files, script, fig, output, error>>
  /\ UNCHANGED colVars

\* a second script that keeps the containers of the first
SecondScript_norebind ==
  /\ pc = "shown"
  /\ script = "v2"
  /\ part = 1
  /\ part' = 2
  /\ pc' = "idle"
  /\ UNCHANGED <<files, script, early_data, late_data, fig, output, error, loads>>
  /\ UNCHANGED colVars

\* v2: after the first script's main() the file goes on with the second
\* script, whose module-level code binds the containers to new empty lists
SecondScript ==
  /\ pc = "shown"
  /\ script = "v2"
  /\ part = 1
  /\ part' = 2
  /\ early_data' = EmptyData
  /\ late_data' = EmptyData
  /\ pc' = "idle"
  /\ loads' = 0
  /\ UNCHANGED <<files, script, fig, output, error>>
  /\ UNCHANGED colVars

Next == Load \/ Render \/ SaveFig \/ Show \/ SecondScript

Spec == Init /\ [][Next]_vars

(***************************************************************************)
(* One column of one table: cleaning, then one stacked bar                 *)
(***************************************************************************)
Values == {-2} \cup (Sentinel..MaxVal) \cup {40, 60, 100, 101}

IdlePipeline ==
  /\ files = [i \in 1..NumFiles |-> MissingFile]
  /\ script = "v4"
  /\ part = 1
  /\ pc = "idle"
  /\ early_data = EmptyData
  /\ late_data = EmptyData
  /\ fig = NoFig
  /\ output = <<>>
  /\ error = "none"
  /\ loads = 0

InitColumn ==
  /\ raw \in [SeqNames -> Values]
  /\ col = raw
  /\ passes = 0
  /\ policy \in {"raw", "average"}
  /\ stacked = FALSE
  /\ bar = BarOf(<<>>, Unbound)
  /\ IdlePipeline

\* df = clean_data(df)
CleanColumn ==
  /\ ~stacked
  /\ passes < MaxPasses
  /\ col' = clean_data(col)
  /\ passes' = passes + 1
  /\ UNCHANGED <<raw, policy, stacked, bar>>
  /\ UNCHANGED pipeVars
  /\ UNCHANGED loads

\* one pass of the loop over variants, on the cleaned column
StackColumn ==
  /\ ~stacked
  /\ passes >= 1
  /\ bar' = Bar(policy, col, 1, Unbound)
  /\ stacked' = TRUE
  /\ UNCHANGED <<raw, col, passes, policy>>
  /\ UNCHANGED pipeVars
  /\ UNCHANGED loads

NextColumn == CleanColumn \/ StackColumn

SpecColumn == InitColumn /\ [][NextColumn]_vars

(***************************************************************************)
(* load_variant_data called again and again on the same containers         *)
(***************************************************************************)
InitLoad ==
  /\ files \in [1..NumFiles -> FileChoices]
  /\ script \in {"v1", "v2", "v4"}
  /\ part = 1
  /\ pc = "idle"
  /\ early_data = EmptyData
  /\ late_data = EmptyData
  /\ fig = NoFig
  /\ output = <<>>
  /\ error = "none"
  /\ loads = 0
  /\ IdleColumn

\* load_variant_data(), by a caller that goes on after an exception
LoadCall ==
  /\ loads < MaxLoads
  /\ LET r == LoadFiles(files, 1, early_data, late_data) IN
       /\ early_data' = r.early
       /\ late_data' = r.late
       /\ error' = r.error
  /\ loads' = loads + 1
  /\ UNCHANGED <<files, script, part, pc, fig, output>>
  /\ UNCHANGED colVars

NextLoad == LoadCall

SpecLoad == InitLoad /\ [][NextLoad]_vars

(***************************************************************************)
(* Properties                                                              *)
(***************************************************************************)
S1 == SEQUENCERS[1]
S2 == SEQUENCERS[2]
S3 == SEQUENCERS[3]
Loaded == pc \in {"loaded", "rendered", "saved", "shown"}
Drawn == pc \in {"rendered", "saved", "shown"}
StackedScript == Policy(script, part) \in {"raw", "average"}
DataOf(axis) == IF axis = "early" THEN early_data ELSE late_data
FigOf(axis) == IF axis = "early" THEN fig.early ELSE fig.late

RECURSIVE SumOf(_, _)
\* the sum of vals over the set S of sequencers
SumOf(vals, S) ==
  IF S = {} THEN 0
  ELSE LET s == CHOOSE t \in S : TRUE IN vals[s] + SumOf(vals, S \ {s})

RECURSIVE HeightSum(_)
\* the sum of the heights of a list of bar() calls
HeightSum(calls) ==
  IF calls = <<>> THEN Zero
  ELSE RatAdd(HeightSum(SubSeq(calls, 1, Len(calls) - 1)), calls[Len(calls)].height)

CallsFor(calls, s) == {j \in 1..Len(calls) : calls[j].seq = s}

\* C1: cleaning a table turns every cell that is -1 into 0 and leaves every
\* other cell as it was read.
C1_CleanCellwise ==
  passes >= 1 =>
    /\ DOMAIN col = DOMAIN raw
    /\ \A s \in DOMAIN raw : col[s] = IF raw[s] = -1 THEN 0 ELSE raw[s]

C1_Witness ==
  /\ passes = 1
  /\ raw[S1] = -1 /\ col[S1] = 0
  /\ raw[S2] = -2 /\ col[S2] = -2
  /\ raw[S3] = 40 /\ col[S3] = 40

\* C2: cleaning is idempotent: a further clean_data on a column that has been
\* cleaned changes nothing.
C2_CleanIdempotent ==
  [][(passes >= 1 /\ passes' = passes + 1) => col' = col]_vars

C2_Witness ==
  /\ passes = 2
  /\ \E s \in SeqNames : raw[s] = -1 /\ col[s] = 0
  /\ \E s \in SeqNames : raw[s] = -2

\* C3 as stated: once the files are loaded, every value of early_data and
\* late_data is non-negative and none is -1.
C3_Original ==
  Loaded =>
    \A axis \in COLUMNS : \A s \in SeqNames :
      \A i \in DOMAIN DataOf(axis)[s] :
        DataOf(axis)[s][i] >= 0 /\ DataOf(axis)[s][i] # -1

\* C3, amended: no value of early_data or late_data is ever -1, no bar() call
\* has height -1, and a stored value is non-negative whenever the cell it was
\* read from was -1 or non-negative.
C3_NoSentinel ==
  /\ \A axis \in COLUMNS : \A s \in SeqNames :
       \A i \in DOMAIN DataOf(axis)[s] :
         /\ DataOf(axis)[s][i] # -1
         /\ files[i].df[<<s, axis>>] >= -1 => DataOf(axis)[s][i] >= 0
  /\ \A axis \in COLUMNS : \A i \in DOMAIN FigOf(axis) :
       \A j \in DOMAIN FigOf(axis)[i].calls :
         ~RatEq(FigOf(axis)[i].calls[j].height, Rat(-1, 1))

C3_Witness ==
  /\ Drawn
  /\ \E s \in SeqNames : \E i \in 1..NumFiles :
       files[i].df[<<s, "early">>] = -1 /\ early_data[s][i] = 0
  /\ \E s \in SeqNames : \E i \in 1..NumFiles :
       files[i].df[<<s, "late">>] = -2 /\ late_data[s][i] = -2

\* C4 as stated: under the raw policy the final bottom, and the sum of the
\* drawn heights, is the sum of the cleaned values of all sequencers, and a
\* sequencer whose cleaned value is 0 has no segment.
C4_Original ==
  (stacked /\ policy = "raw") =>
    /\ RatEq(bar.bottom, Rat(SumOf(col, SeqNames), 1))
    /\ RatEq(HeightSum(bar.calls), Rat(SumOf(col, SeqNames), 1))
    /\ \A s \in SeqNames : col[s] = 0 => CallsFor(bar.calls, s) = {}

\* C4, amended: under the raw policy the final bottom, and the sum of the
\* drawn heights, is the sum of the cleaned values that are greater than 0;
\* a sequencer whose cleaned value is 0 or less has no segment and every
\* other sequencer has one segment, of the height of its value.
C4_RawStackHeight ==
  (stacked /\ policy = "raw") =>
    /\ RatEq(bar.bottom, Rat(SumOf(col, Positive(col)), 1))
    /\ bar.bottom.den # 0
    /\ RatEq(HeightSum(bar.calls), Rat(SumOf(col, Positive(col)), 1))
    /\ \A s \in SeqNames :
         IF col[s] <= 0 THEN CallsFor(bar.calls, s) = {}
         ELSE /\ Cardinality(CallsFor(bar.calls, s)) = 1
              /\ \A j \in CallsFor(bar.calls, s) :
                   RatEq(bar.calls[j].height, Rat(col[s], 1))

C4_Witness ==
  /\ stacked /\ policy = "raw"
  /\ raw[S1] = 40 /\ raw[S2] = -1 /\ raw[S3] = 60
  /\ Len(bar.calls) = 2
  /\ bar.bottom = Rat(100, 1)

NonZero(vals) == {s \in SeqNames : vals[s] # 0}

C6_SumsTo100 ==
  (stacked /\ policy = "average" /\ bar.calls # <<>>) =>
    RatEq(HeightSum(bar.calls), Rat(100, 1))

\* C7: in the stacked charts a variant whose values are all 0 after cleaning
\* gets no bar() call and no height, the chart is drawn without an error and
\* every variant after it is still handled.
C7_ZeroBar ==
  /\ (StackedScript /\ Drawn) =>
       /\ error = "none"
       /\ \A axis \in COLUMNS :
            /\ Len(FigOf(axis)) = NumVariants
            /\ \A i \in 1..NumVariants :
                 (\A s \in SeqNames : DataOf(axis)[s][i] = 0) =>
                   /\ FigOf(axis)[i].calls = <<>>
                   /\ HeightSum(FigOf(axis)[i].calls) = Zero
  /\ error \notin {"IndexError", "ValueError"}

C7_Witness ==
  /\ StackedScript /\ Drawn
  /\ \A s \in SeqNames : early_data[s][1] = 0
  /\ fig.early[1].calls = <<>>
  /\ fig.early[2].calls # <<>>
  /\ \E s \in SeqNames : files[1].df[<<s, "early">>] = -1

\* C8: the segments of a bar are drawn in the order of SEQUENCERS, the first
\* from 0 and each later one from the sum of the heights drawn before it.
C8_DeclaredOrder ==
  stacked =>
    \A j \in DOMAIN bar.calls :
      /\ j = 1 => bar.calls[j].bottom = Zero
      /\ j > 1 => Idx(bar.calls[j - 1].seq) < Idx(bar.calls[j].seq)
      /\ bar.calls[j].bottom.den # 0
      /\ RatEq(bar.calls[j].bottom, HeightSum(SubSeq(bar.calls, 1, j - 1)))

C8_Witness ==
  /\ stacked
  /\ col[S1] > col[S2] /\ col[S2] > col[S3] /\ col[S3] > 0
  /\ Len(bar.calls) = 3
  /\ bar.calls[1].seq = S1 /\ bar.calls[2].seq = S2 /\ bar.calls[3].seq = S3
  /\ bar.calls[3].bottom.num > 0

CellOf(i, s, c) == files[i].df[<<s, c>>]

\* C9: after a load that completed, entry i of early_data[s] and late_data[s]
\* is the cleaned early and late cell of row s of the i-th file, one entry per
\* file.
C9_LoadedInFileOrder ==
  Loaded =>
    \A s \in SeqNames :
      /\ Len(early_data[s]) = NumFiles
      /\ Len(late_data[s]) = NumFiles
      /\ \A i \in 1..NumFiles :
           /\ early_data[s][i] = IF CellOf(i, s, "early") = -1 THEN 0
                                 ELSE CellOf(i, s, "early")
           /\ late_data[s][i] = IF CellOf(i, s, "late") = -1 THEN 0
                                ELSE CellOf(i, s, "late")

C9_Witness ==
  /\ pc = "loaded"
  /\ files[1] # files[2]
  /\ CellOf(1, S1, "early") = 40 /\ CellOf(1, S1, "late") = -2
  /\ CellOf(1, S2, "early") = -1 /\ CellOf(1, S2, "late") = 3
  /\ early_data[S1] # late_data[S1]
  /\ early_data[S2][1] = 0 /\ late_data[S2][1] = 3

BadInput ==
  \E i \in 1..NumFiles :
    \/ ~files[i].exists
    \/ \E k \in SeqNames \X COLUMNS : k \notin DOMAIN files[i].df

\* C10: when a file, a sequencer row or an early/late column is missing, the
\* run ends in the load with an exception; no chart is drawn and no image is
\* written.
C10_AbortOnMissing ==
  BadInput =>
    /\ pc \in {"idle", "aborted"}
    /\ pc = "aborted" => error \in {"FileNotFoundError", "KeyError"}
    /\ fig = NoFig
    /\ output = <<>>

C10_Witness ==
  /\ BadInput
  /\ pc = "aborted"
  /\ error = "KeyError"
  /\ \E s \in SeqNames : Len(early_data[s]) > Len(late_data[s])
  /\ output = <<>>

MainOrder ==
  { <<"idle", "loaded">>, <<"loaded", "rendered">>,
    <<"rendered", "saved">>, <<"saved", "shown">> }

\* C11 as stated (a run that an exception ends aside): a process moves
\* through load, chart, savefig and show in that order and enters none of
\* them a second time.
C11_Original ==
  [][pc' # pc => (<<pc, pc'>> \in MainOrder \/ pc' = "aborted")]_vars

\* C11, amended: every pass of main() moves through load, chart, savefig and
\* show in that order, each at most once, or ends with an exception; the
\* process makes one pass, except that the file of v2 holds two scripts and
\* makes a second pass, from new empty containers, after the first has shown
\* its chart.
C11_LinearPasses ==
  [][pc' # pc =>
       \/ <<pc, pc'>> \in MainOrder /\ part' = part
       \/ pc \in {"idle", "loaded"} /\ pc' = "aborted" /\ part' = part
       \/ /\ pc = "shown" /\ pc' = "idle"
          /\ script = "v2" /\ part = 1 /\ part' = 2
          /\ early_data' = EmptyData /\ late_data' = EmptyData]_vars

C11_Witness ==
  /\ script = "v2"
  /\ part = 2
  /\ pc = "shown"
  /\ Len(output) = 2

\* C12: whenever a chart is drawn from the containers, every list of
\* early_data and late_data has one entry per file, which is one per variant
\* label, from a single load; no index is out of range, also in the second
\* script of v2.
C12_ListsMatchLabels ==
  /\ Loaded =>
       /\ loads = 1
       /\ NumVariants = Len(CSV_FILES)
       /\ \A s \in SeqNames :
            /\ Len(early_data[s]) = NumVariants
            /\ Len(late_data[s]) = NumVariants
  /\ Drawn => /\ Len(fig.early) = NumVariants
              /\ Len(fig.late) = NumVariants
              /\ fig = CreateGraph(Policy(script, part), early_data, late_data).fig
  /\ error \notin {"IndexError", "ValueError"}

C12_Witness ==
  /\ script = "v2"
  /\ part = 2
  /\ pc = "rendered"
  /\ Len(output) = 1
  /\ \A s \in SeqNames : Len(early_data[s]) = NumVariants
  /\ fig # output[1].fig

InRange(v) == v = -1 \/ (v >= 0 /\ v <= 100)
Top(c) == RatAdd(c.bottom, c.height)

\* C13: under the equal-weight policy, when every value read is -1 or within
\* 0..100, the top of every drawn segment is above 0 and at most 100.
C13_WithinAxis ==
  (stacked /\ policy = "average" /\ \A s \in SeqNames : InRange(raw[s])) =>
    \A j \in DOMAIN bar.calls :
      /\ Top(bar.calls[j]).den > 0
      /\ Top(bar.calls[j]).num > 0
      /\ Top(bar.calls[j]).num <= 100 * Top(bar.calls[j]).den

C13_Witness ==
  /\ stacked /\ policy = "average"
  /\ \A s \in SeqNames : raw[s] = 100
  /\ Len(bar.calls) = 3
  /\ RatEq(Top(bar.calls[3]), Rat(100, 1))

IsPrefix(a, b) == Len(a) <= Len(b) /\ SubSeq(b, 1, Len(a)) = a
CleanCell(i, s, c) == IF CellOf(i, s, c) = -1 THEN 0 ELSE CellOf(i, s, c)

\* C14: a call of load_variant_data only appends: what the lists held stays
\* at their front, the sequencer keys stay the same, and a call that returns
\* has added one value per file to each list; so after k calls every list has
\* k values per file and begins with the values of the first call.
C14_AppendOnly ==
  /\ [][loads' = loads + 1 =>
          /\ DOMAIN early_data' = DOMAIN early_data
          /\ DOMAIN late_data' = DOMAIN late_data
          /\ \A s \in SeqNames :
               /\ IsPrefix(early_data[s], early_data'[s])
               /\ IsPrefix(late_data[s], late_data'[s])
               /\ error' = "none" =>
                    /\ Len(early_data'[s]) = Len(early_data[s]) + NumFiles
                    /\ Len(late_data'[s]) = Len(late_data[s]) + NumFiles]_vars
  /\ [](error = "none" =>
          \A s \in SeqNames :
            /\ Len(early_data[s]) = NumFiles * loads
            /\ Len(late_data[s]) = NumFiles * loads
            /\ loads >= 1 =>
                 \A i \in 1..NumFiles :
                   /\ early_data[s][i] = CleanCell(i, s, "early")
                   /\ late_data[s][i] = CleanCell(i, s, "late"))

C14_Witness ==
  /\ loads = 2
  /\ error = "none"
  /\ \A s \in SeqNames : Len(early_data[s]) = 2 * NumFiles
  /\ files[1] # files[2]
  /\ early_data[S1][1] # early_data[S1][2]
  /\ early_data[S1][NumFiles + 1] = early_data[S1][1]
====
